---- MODULE Spec2Model ----
(***************************************************************************)
(* A model of the graph utilities (getEdgeId, connectionExists, addEdge,   *)
(* updateEdge, getNodesInside, isParentSelected, getTransformForBounds)    *)
(* and of the store registry behind useVueFlow (Storage, instance          *)
(* resolution, default change-handler wiring, teardown on scope disposal). *)
(*                                                                         *)
(* JavaScript values: a string is a TLA+ string, `undefined` (a missing    *)
(* key) is the value Undefined, which no program string equals.            *)
(***************************************************************************)
EXTENDS Integers, Sequences, FiniteSets, TLC

VARIABLES
    elements,   \* the element collection the caller holds (edges, in order)
    prev,       \* the collection handed to the last addEdge/updateEdge call
    call,       \* the last addEdge/updateEdge call: its name and arguments
    nodeTable,  \* the stored nodes findNode looks up: id -> parentNode, selected
    ips,        \* the running isParentSelected call: position, node, depth, result
    flows,      \* Storage.flows: identifier -> store instance
    currentId,  \* Storage.currentId
    insts,      \* the store instances ever created, in order of creation
    scopes,     \* the component scopes: alive, vueFlowId, provided instance
    lastUse,    \* the last useVueFlow call: its arguments, what it found and returned
    teardowns,  \* the teardown callbacks the last scope disposal ran
    gni,        \* a getNodesInside call: its arguments, its position, its result
    tfb         \* a getTransformForBounds call: its arguments, its position, its result

edgeVars == <<elements, prev, call>>
parentVars == <<nodeTable, ips>>
flowVars == <<flows, currentId, insts, scopes, lastUse, teardowns>>
vars == <<edgeVars, parentVars, flowVars, gni, tfb>>

Undefined == "<undefined>"

(* JavaScript truthiness of a string-or-undefined value: !v is true for    *)
(* undefined and for the empty string.                                     *)
Falsy(v) == v = Undefined \/ v = ""

(***************************************************************************)
(* Edge identifiers and the connection test                                *)
(***************************************************************************)

(* a ?? '' *)
OrEmpty(h) == IF h = Undefined THEN "" ELSE h

getEdgeId(c) ==
    "vueflow__edge-" \o c.source \o OrEmpty(c.sourceHandle) \o "-"
        \o c.target \o OrEmpty(c.targetHandle)

(* Every element of the modelled collection carries id, source and target. *)
isEdge(el) == el.id # Undefined /\ el.source # Undefined /\ el.target # Undefined

HandleMatch(a, b) == a = b \/ (Falsy(a) /\ Falsy(b))

connectionExists(edge, els) ==
    \E i \in 1..Len(els) :
        /\ isEdge(els[i])
        /\ els[i].source = edge.source
        /\ els[i].target = edge.target
        /\ HandleMatch(els[i].sourceHandle, edge.sourceHandle)
        /\ HandleMatch(els[i].targetHandle, edge.targetHandle)

(* parseEdge overlays the raw edge on the defaults: of the fields modelled *)
(* here the raw values win, a handle the raw edge lacks stays undefined.   *)
parseEdge(edge) ==
    [id |-> edge.id, source |-> edge.source, target |-> edge.target,
     sourceHandle |-> edge.sourceHandle, targetHandle |-> edge.targetHandle]

(* addEdge without its validation of source and target. *)
addEdge_NoValidation(edgeParams, els) ==
    LET withId == IF isEdge(edgeParams)
                  THEN edgeParams
                  ELSE [edgeParams EXCEPT !.id = getEdgeId(edgeParams)]
        edge == parseEdge(withId)
    IN  IF connectionExists(edge, els) THEN els ELSE Append(els, edge)

addEdge(edgeParams, els) ==
    IF Falsy(edgeParams.source) \/ Falsy(edgeParams.target)
    THEN els
    ELSE LET withId == IF isEdge(edgeParams)
                       THEN edgeParams
                       ELSE [edgeParams EXCEPT !.id = getEdgeId(edgeParams)]
             edge == parseEdge(withId)
         IN  IF connectionExists(edge, els) THEN els ELSE Append(els, edge)

(* elements.find((e) => isEdge(e) && e.id === oldEdge.id): index or 0 *)
FindIndex(oldId, els) ==
    LET hits == {i \in 1..Len(els) : isEdge(els[i]) /\ els[i].id = oldId}
    IN  IF hits = {} THEN 0 ELSE CHOOSE i \in hits : \A j \in hits : i <= j

RECURSIVE FilterOutId(_, _)
FilterOutId(els, oldId) ==
    IF els = << >> THEN << >>
    ELSE IF Head(els).id # oldId
         THEN <<Head(els)>> \o FilterOutId(Tail(els), oldId)
         ELSE FilterOutId(Tail(els), oldId)

updateEdge(oldEdge, newConnection, els) ==
    IF Falsy(newConnection.source) \/ Falsy(newConnection.target)
    THEN els
    ELSE LET k == FindIndex(oldEdge.id, els)
         IN  IF k = 0
             THEN els
             ELSE LET edge == [oldEdge EXCEPT
                                  !.id = getEdgeId(newConnection),
                                  !.source = newConnection.source,
                                  !.target = newConnection.target,
                                  !.sourceHandle = newConnection.sourceHandle,
                                  !.targetHandle = newConnection.targetHandle]
                      spliced == [els EXCEPT ![k] = edge]
                  IN  FilterOutId(spliced, oldEdge.id)

(***************************************************************************)
(* The edge mutation protocol as a state machine: a caller starts from an  *)
(* empty collection and folds the collection every call returns back into  *)
(* it. The collection holds edges only.                                    *)
(***************************************************************************)

MaxEdges == 2

Sources == {"a", "ab"}
Targets == {"c"}
SourceHandles == {Undefined, "b"}
TargetHandles == {Undefined, ""}
ParamId == "e"
MissingId == "zz"

Conn(s, sh, t, th) ==
    [id |-> Undefined, source |-> s, target |-> t,
     sourceHandle |-> sh, targetHandle |-> th]

(* A Connection has no id key. The valid ones, and one for each way of     *)
(* being invalid: a missing or an empty source or target.                  *)
ValidConnections ==
    {Conn(s, sh, t, th) : s \in Sources, sh \in SourceHandles,
                          t \in Targets, th \in TargetHandles}

InvalidConnections ==
    {Conn(Undefined, Undefined, "c", Undefined), Conn("", "b", "c", Undefined),
     Conn("a", Undefined, Undefined, Undefined), Conn("ab", Undefined, "", "")}

Connections == ValidConnections \cup InvalidConnections

(* An Edge is a connection that carries its own id. *)
EdgeParams ==
    Connections \cup
    {[Conn(s, Undefined, "c", Undefined) EXCEPT !.id = ParamId] : s \in Sources}

(* The oldEdge argument: an element of the collection, or an edge whose    *)
(* identifier the collection does not hold.                                *)
OldEdges(els) ==
    {els[i] : i \in 1..Len(els)} \cup
    {[id |-> MissingId, source |-> "a", target |-> "c",
      sourceHandle |-> Undefined, targetHandle |-> Undefined]}

NoCall == [op |-> "none", params |-> Undefined, old |-> Undefined]

EdgesIdle ==
    /\ elements = << >>
    /\ prev = << >>
    /\ call = NoCall

AddEdge(p) ==
    /\ Len(addEdge(p, elements)) <= MaxEdges
    /\ elements' = addEdge(p, elements)
    /\ prev' = elements
    /\ call' = [op |-> "addEdge", params |-> p, old |-> Undefined]
    /\ UNCHANGED <<parentVars, flowVars, gni, tfb>>

UpdateEdge(old, c) ==
    /\ elements' = updateEdge(old, c, elements)
    /\ prev' = elements
    /\ call' = [op |-> "updateEdge", params |-> c, old |-> old.id]
    /\ UNCHANGED <<parentVars, flowVars, gni, tfb>>

(***************************************************************************)
(* isParentSelected: the walk up the parent chain, one invocation of the   *)
(* function per step. The recursion is not a loop: every level takes a     *)
(* stack frame, and a JavaScript engine ends a recursion deeper than its   *)
(* stack with a RangeError. MaxStack is that depth; it is larger than the  *)
(* longest chain the stored nodes can form without a cycle.                *)
(***************************************************************************)

MaxStack == 4

NodeIds == {"n1", "n2", "n3"}
GhostId == "ghost"
ParentValues == NodeIds \cup {Undefined, "", GhostId}

NodeTables == [NodeIds -> [parentNode : ParentValues, selected : BOOLEAN]]

(* findNode(id): the stored node of that id, or undefined. *)
findNode(id) == IF id \in DOMAIN nodeTable THEN id ELSE Undefined

IpsIdle == [pc |-> "idle", start |-> Undefined, node |-> Undefined,
            depth |-> 0, result |-> "none"]

ParentIdle ==
    /\ nodeTable = [n \in NodeIds |-> [parentNode |-> Undefined, selected |-> FALSE]]
    /\ ips = IpsIdle

CallIsParentSelected(n) ==
    /\ ips.pc # "running"
    /\ ips' = [pc |-> "running", start |-> n, node |-> n, depth |-> 1,
               result |-> "none"]
    /\ UNCHANGED <<nodeTable, edgeVars, flowVars, gni, tfb>>

Return(r) == [ips EXCEPT !.pc = "done", !.result = r]

(* One invocation of isParentSelected(node, findNode). *)
isParentSelected ==
    LET parentNode == nodeTable[ips.node].parentNode
        parent == findNode(parentNode)
    IN  IF Falsy(parentNode) THEN Return("false")
        ELSE IF parent = Undefined THEN Return("false")
        ELSE IF nodeTable[parent].selected THEN Return("true")
        ELSE IF ips.depth >= MaxStack THEN Return("RangeError")
        ELSE [ips EXCEPT !.node = parent, !.depth = ips.depth + 1]

StepIsParentSelected ==
    /\ ips.pc = "running"
    /\ ips' = isParentSelected
    /\ UNCHANGED <<nodeTable, edgeVars, flowVars, gni, tfb>>

(***************************************************************************)
(* The store registry and useVueFlow                                       *)
(*                                                                         *)
(* A store instance is identified by its position in insts (object         *)
(* identity); 0 stands for "no instance" (undefined or null). Of a store   *)
(* the model keeps its id, the scope useVueFlow ran in when it created it  *)
(* (the parent of the effect scope that holds its watcher and its teardown *)
(* callback), the applyDefault flag, the state of the watcher on that flag *)
(* and the handlers subscribed to its nodesChange and edgesChange hooks.   *)
(* A hook keeps a set of handlers: on(h) adds h, off(h) removes it.        *)
(***************************************************************************)

MaxInstances == 2

NoScope == "none"
Scopes == {"s1", "s2"}

(* s1 is a root component, s2 a component below it: inject in s2 reads     *)
(* what s1 provided, inject in s1 finds nothing.                           *)
ParentScope(s) == IF s = "s2" THEN "s1" ELSE NoScope

(* The options of a useVueFlow call: none at all, or an object that may    *)
(* carry an id and may set applyDefault.                                   *)
ExplicitIds == {"", "A"}
NoOptions == [given |-> FALSE, id |-> Undefined, applyDefault |-> "unset"]
IdOptions ==
    {NoOptions} \cup
    [given : {TRUE}, id : ExplicitIds \cup {Undefined}, applyDefault : {"unset"}]
FlagOptions ==
    {NoOptions} \cup
    [given : {TRUE}, id : {Undefined}, applyDefault : {"unset", "on", "off"}]

(* Options whose explicit id may be one the registry generates itself. *)
GeneratedLikeIds == {"A", "vue-flow-0"}
NamedOptions ==
    {NoOptions} \cup
    [given : {TRUE}, id : GeneratedLikeIds, applyDefault : {"unset"}]

Instances == 1..Len(insts)

(* Storage.get(id): the instance stored under id, or none. *)
StorageGet(f, id) == IF id \in DOMAIN f THEN f[id] ELSE 0

(* Storage.set(id, flow) *)
StorageSet(f, id, i) == (id :> i) @@ f

(* Storage.remove(id) *)
StorageRemove(f, id) == [k \in DOMAIN f \ {id} |-> f[k]]

(* Storage.getId(): the identifier made from currentId, which it then      *)
(* increments.                                                             *)
getId(n) == "vue-flow-" \o ToString(n)

(* inject(VueFlow, null) in scope s: what the nearest ancestor provided. *)
RECURSIVE Inject(_)
Inject(s) ==
    LET p == ParentScope(s)
    IN  IF p = NoScope THEN 0
        ELSE IF scopes[p].provided # 0 THEN scopes[p].provided
        ELSE Inject(p)

(* A handler no hook and no cleanup refers to: every run of the watcher    *)
(* callback makes its two handlers anew.                                   *)
FreshHandler(w) ==
    LET used == w.nodesChange \cup w.edgesChange \cup {w.cleanup}
    IN  CHOOSE h \in 1..(Cardinality(used) + 1) : h \notin used

(* A cleanup that releases nothing. *)
RunCleanup_KeepsHandlers(w) == [w EXCEPT !.cleanup = 0]

(* The cleanup registered by onCleanup: off(handler) on both hooks. *)
RunCleanup(w) ==
    IF w.cleanup = 0 THEN w
    ELSE [w EXCEPT !.nodesChange = @ \ {w.cleanup},
                   !.edgesChange = @ \ {w.cleanup},
                   !.cleanup = 0]

(* The watcher callback, run with the flag's value. *)
RunCallback(w, shouldApplyDefault) ==
    LET h == FreshHandler(w)
    IN  [w EXCEPT
           !.nodesChange = IF shouldApplyDefault THEN @ \cup {h} ELSE @ \ {h},
           !.edgesChange = IF shouldApplyDefault THEN @ \cup {h} ELSE @ \ {h},
           !.cleanup = h]

(* The watcher's job: nothing once stopped; if the value changed, the      *)
(* previous cleanup and then the callback.                                 *)
WatcherJob(w) ==
    IF ~w.active THEN [w EXCEPT !.pending = FALSE]
    ELSE IF w.applyDefault = w.oldValue THEN [w EXCEPT !.pending = FALSE]
    ELSE [RunCallback(RunCleanup(w), w.applyDefault) EXCEPT
             !.oldValue = w.applyDefault, !.pending = FALSE]

(* Stopping the watcher (its effect scope is stopped) runs its cleanup. *)
StopWatcher(w) == [RunCleanup(w) EXCEPT !.active = FALSE]

(* A write to the applyDefault ref: a changed value queues the watcher's   *)
(* job, which a later flush runs.                                          *)
WriteApplyDefault(w, b) ==
    IF w.applyDefault = b THEN w
    ELSE [w EXCEPT !.applyDefault = b, !.pending = @ \/ w.active]

(* Storage.create(id, options): the store it builds, which no scope owns   *)
(* and no watcher wires.                                                   *)
StorageCreate(id, flag) ==
    [id |-> id, owner |-> NoScope, applyDefault |-> flag,
     active |-> FALSE, pending |-> FALSE, oldValue |-> flag,
     cleanup |-> 0, nodesChange |-> {}, edgesChange |-> {}]

(* Storage.create(id, options) and the effect scope useVueFlow sets up     *)
(* for it: the watcher runs at once (immediate) with the initial flag.     *)
NewInstance(id, owner, flag) ==
    RunCallback([StorageCreate(id, flag) EXCEPT !.owner = owner, !.active = TRUE],
                flag)

ScopeUsable(sc) == IF sc = NoScope THEN TRUE ELSE scopes[sc].alive

NoUse == [id |-> Undefined, injected |-> 0, looked |-> 0,
          returned |-> 0, count |-> 0, after |-> 0, stored |-> 0]

FlowIdle ==
    /\ flows = << >>
    /\ currentId = 0
    /\ insts = << >>
    /\ scopes = [s \in Scopes |->
                    [alive |-> TRUE, vueFlowId |-> Undefined, provided |-> 0]]
    /\ lastUse = NoUse
    /\ teardowns = << >>

(* The resolution with the registry asked before the injection. *)
Resolve_LookupFirst(injection, looked) ==
    IF looked # 0 THEN looked ELSE injection

(* The instance the first two steps of useVueFlow find: the injected one,  *)
(* else the one the registry holds.                                        *)
Resolve(injection, looked) ==
    IF injection # 0 THEN injection ELSE looked

(* useVueFlow(options) called in scope sc (or outside any scope). default  *)
(* is the value of applyDefault in a newly created state, which the        *)
(* options override.                                                       *)
UseVueFlow(sc, options, default) ==
    LET id == options.id
        scopeId == IF sc = NoScope THEN Undefined ELSE scopes[sc].vueFlowId
        vueFlowId == IF Falsy(scopeId) THEN id ELSE scopeId
        injection == IF sc = NoScope THEN 0 ELSE Inject(sc)
        looked == IF Falsy(vueFlowId) THEN 0 ELSE StorageGet(flows, vueFlowId)
        found == Resolve(injection, looked)
        create == found = 0 \/ (~Falsy(id) /\ id # insts[found].id)
        name == IF id = Undefined THEN getId(currentId) ELSE id
        flag == IF options.applyDefault = "unset" THEN default
                ELSE options.applyDefault = "on"
        new == Len(insts) + 1
        vueFlow == IF create THEN new ELSE found
    IN  /\ ScopeUsable(sc)
        /\ create => Len(insts) < MaxInstances
        /\ IF create
           THEN /\ insts' = Append(insts, NewInstance(name, sc, flag))
                /\ flows' = StorageSet(flows, name, new)
                /\ currentId' = IF id = Undefined THEN currentId + 1 ELSE currentId
           ELSE /\ insts' = IF options.given /\ options.applyDefault # "unset"
                            THEN [insts EXCEPT ![found] = WriteApplyDefault(@, flag)]
                            ELSE insts
                /\ UNCHANGED <<flows, currentId>>
        /\ scopes' = IF sc = NoScope THEN scopes
                     ELSE [scopes EXCEPT ![sc].provided = vueFlow,
                                         ![sc].vueFlowId = insts'[vueFlow].id]
        /\ lastUse' = [id |-> id, injected |-> injection,
                       looked |-> looked, returned |-> vueFlow,
                       count |-> Len(insts), after |-> Len(insts'),
                       stored |-> StorageGet(flows', insts'[vueFlow].id)]
        /\ UNCHANGED <<teardowns, edgeVars, parentVars, gni, tfb>>

(* A write to instance i's applyDefault flag. *)
SetApplyDefault(i, b) ==
    /\ insts[i].applyDefault # b
    /\ insts' = [insts EXCEPT ![i] = WriteApplyDefault(@, b)]
    /\ UNCHANGED <<flows, currentId, scopes, lastUse, teardowns, edgeVars, parentVars, gni, tfb>>

(* The scheduler flushes the queued job of instance i's watcher. *)
FlushWatcher(i) ==
    /\ insts[i].pending
    /\ insts' = [insts EXCEPT ![i] = WatcherJob(@)]
    /\ UNCHANGED <<flows, currentId, scopes, lastUse, teardowns, edgeVars, parentVars, gni, tfb>>

(* A destroy hook that leaves the registry as it is. *)
destroy_KeepsEntry(f, i) == f

(* flow.$destroy(): this.remove(id) *)
destroy(f, i) == StorageRemove(f, insts[i].id)

(* A caller invokes instance i's destroy hook. *)
Destroy(i) ==
    /\ flows' = destroy(flows, i)
    /\ flows' # flows
    /\ UNCHANGED <<currentId, insts, scopes, lastUse, teardowns, edgeVars, parentVars, gni, tfb>>

(* Direct calls of the exported Storage's public methods.                  *)

(* The keys and ids the direct calls use. *)
DirectKeys == {"A"}

(* storage.getId(): the counter moves on, no store is created. *)
CallGetId ==
    /\ currentId < MaxInstances
    /\ currentId' = currentId + 1
    /\ UNCHANGED <<flows, insts, scopes, lastUse, teardowns, edgeVars, parentVars, gni, tfb>>

(* storage.set(key, flow) with the store i. The program calls it with the  *)
(* store's own id alone, and so do the specifications.                     *)
CallSet(key, i) ==
    /\ flows' = StorageSet(flows, key, i)
    /\ flows' # flows
    /\ UNCHANGED <<currentId, insts, scopes, lastUse, teardowns, edgeVars, parentVars, gni, tfb>>

(* storage.remove(key) *)
CallRemove(key) ==
    /\ key \in DOMAIN flows
    /\ flows' = StorageRemove(flows, key)
    /\ UNCHANGED <<currentId, insts, scopes, lastUse, teardowns, edgeVars, parentVars, gni, tfb>>

(* storage.create(id): a store registered under id, with no watcher, no    *)
(* teardown and no scope.                                                  *)
CallCreate(id, default) ==
    /\ Len(insts) < MaxInstances
    /\ insts' = Append(insts, StorageCreate(id, default))
    /\ flows' = StorageSet(flows, id, Len(insts) + 1)
    /\ UNCHANGED <<currentId, scopes, lastUse, teardowns, edgeVars, parentVars, gni, tfb>>

(* The teardown callback of the effect scope that created instance i. *)
Teardown(f, i) ==
    LET storedInstance == StorageGet(f, insts[i].id)
    IN  IF storedInstance # 0
        THEN [inst |-> i, before |-> f, after |-> destroy(f, storedInstance),
              destroyed |-> storedInstance, warned |-> FALSE]
        ELSE [inst |-> i, before |-> f, after |-> f,
              destroyed |-> 0, warned |-> TRUE]

(* The instances created in scope sc, in order of creation. *)
RECURSIVE OwnedFrom(_, _)
OwnedFrom(sc, i) ==
    IF i > Len(insts) THEN << >>
    ELSE IF insts[i].owner = sc THEN <<i>> \o OwnedFrom(sc, i + 1)
    ELSE OwnedFrom(sc, i + 1)

(* The scopes a disposal of sc stops, in order: sc, then the scopes below  *)
(* it that are still alive.                                                *)
Stopped(sc) ==
    <<sc>> \o (IF sc = "s1" /\ scopes["s2"].alive THEN <<"s2">> ELSE << >>)

RECURSIVE Concat(_)
Concat(ss) == IF ss = << >> THEN << >> ELSE Head(ss) \o Concat(Tail(ss))

OwnedBy(scs) == Concat([k \in 1..Len(scs) |-> OwnedFrom(scs[k], 1)])

(* The teardown callbacks of the instances is, run one after the other on  *)
(* the registry f.                                                         *)
RECURSIVE RunTeardowns(_, _)
RunTeardowns(f, is) ==
    IF is = << >> THEN << >>
    ELSE LET t == Teardown(f, Head(is))
         IN  <<t>> \o RunTeardowns(t.after, Tail(is))

(* Scope sc is disposed: every effect scope useVueFlow created in it (and  *)
(* in the scopes below it) stops its watcher and runs its teardown.        *)
DisposeScope(sc) ==
    LET scs == Stopped(sc)
        owned == OwnedBy(scs)
        log == RunTeardowns(flows, owned)
    IN  /\ scopes[sc].alive
        /\ scopes' = [s \in Scopes |->
                        IF \E k \in 1..Len(scs) : scs[k] = s
                        THEN [scopes[s] EXCEPT !.alive = FALSE]
                        ELSE scopes[s]]
        /\ insts' = [i \in 1..Len(insts) |->
                        IF \E k \in 1..Len(owned) : owned[k] = i
                        THEN StopWatcher(insts[i])
                        ELSE insts[i]]
        /\ flows' = IF log = << >> THEN flows ELSE log[Len(log)].after
        /\ teardowns' = log
        /\ UNCHANGED <<currentId, lastUse, edgeVars, parentVars, gni, tfb>>

(***************************************************************************)
(* getNodesInside                                                          *)
(*                                                                         *)
(* Positions and sizes are integers and the zoom is 1 or 2, so every       *)
(* number of the computation is a multiple of one half and the arithmetic  *)
(* of the code is exact. The pane rectangle and the node rectangle are     *)
(* kept in halves (twice their value); a product of two of them is in      *)
(* quarters. A dimension that was never measured is Unmeasured (the        *)
(* JavaScript undefined).                                                  *)
(***************************************************************************)

MaxNodes == 1

Unmeasured == -1

Max(a, b) == IF a >= b THEN a ELSE b
Min(a, b) == IF a <= b THEN a ELSE b

(* Math.ceil of a number of quarters, q >= 0. *)
CeilQuarters(q) == (q + 3) \div 4

(* getOverlappingArea(rectA, rectB), the rectangles in halves. *)
getOverlappingArea(rectA, rectB) ==
    LET xOverlap == Max(0, Min(rectA.x + rectA.width, rectB.x + rectB.width)
                             - Max(rectA.x, rectB.x))
        yOverlap == Max(0, Min(rectA.y + rectA.height, rectB.y + rectB.height)
                             - Max(rectA.y, rectB.y))
    IN  CeilQuarters(xOverlap * yOverlap)

(* The selection rectangle in pane coordinates, in halves. *)
PaneRect(rect, transform) ==
    [x |-> (2 * (rect.x - transform.x)) \div transform.zoom,
     y |-> (2 * (rect.y - transform.y)) \div transform.zoom,
     width |-> (2 * rect.width) \div transform.zoom,
     height |-> (2 * rect.height) \div transform.zoom]

(* d || 0 *)
OrZero(d) == IF d = Unmeasured THEN 0 ELSE d

(* { ...computedPosition, width: dimensions.width || 0, height: ... },     *)
(* in halves.                                                              *)
NodeRect(node) ==
    [x |-> 2 * node.x, y |-> 2 * node.y,
     width |-> 2 * OrZero(node.width), height |-> 2 * OrZero(node.height)]

NotInitialized(node) ==
    \/ node.width = Unmeasured
    \/ node.height = Unmeasured
    \/ node.width = 0
    \/ node.height = 0

(* overlappingArea >= dimensions.width * dimensions.height: with an        *)
(* undefined dimension the product is NaN and the comparison false.        *)
CoversArea(overlappingArea, node) ==
    /\ node.width # Unmeasured
    /\ node.height # Unmeasured
    /\ overlappingArea >= node.width * node.height

(* The filter without its look at the height. *)
InsideFilter_WidthOnly(node, paneRect, partially, excludeNonSelectableNodes) ==
    IF excludeNonSelectableNodes /\ node.selectable # "true"
    THEN FALSE
    ELSE LET overlappingArea == getOverlappingArea(paneRect, NodeRect(node))
             notInitialized == node.width = Unmeasured \/ node.width = 0
             partiallyVisible == partially /\ overlappingArea > 0
         IN  notInitialized \/ partiallyVisible \/ CoversArea(overlappingArea, node)

(* The filter callback of getNodesInside. *)
InsideFilter(node, paneRect, partially, excludeNonSelectableNodes) ==
    IF excludeNonSelectableNodes /\ node.selectable # "true"
    THEN FALSE
    ELSE LET overlappingArea == getOverlappingArea(paneRect, NodeRect(node))
             partiallyVisible == partially /\ overlappingArea > 0
         IN  \/ NotInitialized(node)
             \/ partiallyVisible
             \/ CoversArea(overlappingArea, node)

(* nodes.filter(...): the positions of the nodes kept, in order. *)
RECURSIVE FilterFrom(_, _, _, _, _)
FilterFrom(nodes, i, paneRect, partially, exclude) ==
    IF i > Len(nodes) THEN << >>
    ELSE (IF InsideFilter(nodes[i], paneRect, partially, exclude)
          THEN <<i>> ELSE << >>)
         \o FilterFrom(nodes, i + 1, paneRect, partially, exclude)

getNodesInside(nodes, rect, transform, partially, excludeNonSelectableNodes) ==
    FilterFrom(nodes, 1, PaneRect(rect, transform), partially,
               excludeNonSelectableNodes)

NodeValues ==
    [x : {0, 1}, y : {0}, width : {Unmeasured, 0, 2},
     height : {Unmeasured, 0, 1}, selectable : {Undefined, "true", "false"}]

NodeLists == UNION {[1..n -> NodeValues] : n \in 1..MaxNodes}

Rects == [x : {0, 1}, y : {0}, width : {1, 3}, height : {1}]

Transforms == [x : {0, 1}, y : {0}, zoom : {1, 2}]

GniCalls ==
    [nodes : NodeLists, rect : Rects, transform : Transforms,
     partially : BOOLEAN, exclude : BOOLEAN, pc : {"call"}, result : {<< >>}]

GniIdle ==
    gni = [nodes |-> << >>, rect |-> [x |-> 0, y |-> 0, width |-> 1, height |-> 1],
           transform |-> [x |-> 0, y |-> 0, zoom |-> 1],
           partially |-> FALSE, exclude |-> FALSE, pc |-> "idle", result |-> << >>]

GetNodesInside ==
    /\ gni.pc = "call"
    /\ gni' = [gni EXCEPT
                 !.pc = "done",
                 !.result = getNodesInside(gni.nodes, gni.rect, gni.transform,
                                           gni.partially, gni.exclude)]
    /\ UNCHANGED <<edgeVars, parentVars, flowVars, tfb>>

(***************************************************************************)
(* getTransformForBounds                                                   *)
(*                                                                         *)
(* A JavaScript number is a fraction n/d in lowest terms with d >= 0:      *)
(* d > 0 is the finite value n/d, 1/0 is Infinity, -1/0 is -Infinity and   *)
(* 0/0 is NaN. The arithmetic is the IEEE arithmetic of the operators the  *)
(* code uses, without rounding and without the sign of zero: a zero        *)
(* divisor is the positive zero, which is what a product of non-negative   *)
(* numbers gives.                                                          *)
(***************************************************************************)

MaxDim == 2

Abs(k) == IF k < 0 THEN -k ELSE k

Sign(k) == IF k > 0 THEN 1 ELSE IF k < 0 THEN -1 ELSE 0

RECURSIVE Gcd(_, _)
Gcd(a, b) == IF b = 0 THEN a ELSE Gcd(b, a % b)

(* The number n/d in lowest terms, its sign carried by n. *)
Norm(n, d) ==
    IF d = 0
    THEN [n |-> Sign(n), d |-> 0]
    ELSE LET g == Gcd(Abs(n), Abs(d))
         IN [n |-> (Sign(d) * n) \div g, d |-> Abs(d) \div g]

Whole(k) == [n |-> k, d |-> 1]

NaN == [n |-> 0, d |-> 0]

IsNaN(a) == a.n = 0 /\ a.d = 0

IsFinite(a) == a.d > 0

(* a * b: Infinity times zero is NaN, NaN times anything is NaN. *)
Mul(a, b) == Norm(a.n * b.n, a.d * b.d)

(* a / b: a non-zero number over zero is an infinity, zero over zero and   *)
(* infinity over infinity are NaN, a finite number over an infinity is     *)
(* zero; a negative divisor turns the sign, of an infinite dividend too.   *)
Div(a, b) ==
    IF b.n < 0
    THEN Norm(-(a.n * b.d), -(a.d * b.n))
    ELSE Norm(a.n * b.d, a.d * b.n)

(* a + b: infinities of one sign add up to that infinity, of opposite      *)
(* signs to NaN.                                                           *)
Add(a, b) ==
    IF IsNaN(a) \/ IsNaN(b) THEN NaN
    ELSE IF ~IsFinite(a) /\ ~IsFinite(b) THEN (IF a = b THEN a ELSE NaN)
    ELSE Norm(a.n * b.d + b.n * a.d, a.d * b.d)

Neg(a) == [n |-> -a.n, d |-> a.d]

Sub(a, b) == Add(a, Neg(b))

(* a < b; every comparison with NaN is false. *)
Less(a, b) ==
    IF IsNaN(a) \/ IsNaN(b) THEN FALSE
    ELSE IF ~IsFinite(a) /\ ~IsFinite(b) THEN a.n < b.n
    ELSE a.n * b.d < b.n * a.d

(* Math.min and Math.max: NaN as soon as one argument is NaN. *)
MathMin(a, b) ==
    IF IsNaN(a) \/ IsNaN(b) THEN NaN ELSE IF Less(b, a) THEN b ELSE a

MathMax(a, b) ==
    IF IsNaN(a) \/ IsNaN(b) THEN NaN ELSE IF Less(a, b) THEN b ELSE a

clamp(val, min, max) == MathMin(MathMax(val, min), max)

(* The default of the padding parameter, 0.1. *)
DefaultPadding == Norm(1, 10)

(* A number-typed key that is missing (undefined): no lowest-terms fraction *)
(* has a negative denominator.                                             *)
MissingNumber == [n |-> 0, d |-> -1]

(* offset.x ?? 0 *)
Nullish(v, default) == IF v = MissingNumber THEN default ELSE v

getTransformForBounds(bounds, width, height, minZoom, maxZoom, padding, offset) ==
    LET xZoom == Div(width, Mul(bounds.width, Add(Whole(1), padding)))
        yZoom == Div(height, Mul(bounds.height, Add(Whole(1), padding)))
        zoom == MathMin(xZoom, yZoom)
        clampedZoom == clamp(zoom, minZoom, maxZoom)
        boundsCenterX == Add(bounds.x, Div(bounds.width, Whole(2)))
        boundsCenterY == Add(bounds.y, Div(bounds.height, Whole(2)))
        x == Add(Sub(Div(width, Whole(2)), Mul(boundsCenterX, clampedZoom)),
                 Nullish(offset.x, Whole(0)))
        y == Add(Sub(Div(height, Whole(2)), Mul(boundsCenterY, clampedZoom)),
                 Nullish(offset.y, Whole(0)))
    IN [x |-> x, y |-> y, zoom |-> clampedZoom]

(* The inputs: whole-number rectangles and viewports, a zero extent        *)
(* included, and zoom limits with minZoom <= maxZoom.                      *)
Dims == {Whole(k) : k \in 0 .. MaxDim}

BoundsRects == [x : {Whole(0), Whole(1)}, y : {Whole(0)}, width : Dims, height : Dims]

ZoomLimits == {Norm(1, 2), Whole(1), Whole(2)}

Offsets == {[x |-> Whole(0), y |-> Whole(0)], [x |-> MissingNumber, y |-> Whole(1)]}

TfbCalls ==
    {c \in [bounds : BoundsRects, width : Dims, height : Dims,
            minZoom : ZoomLimits, maxZoom : ZoomLimits, offset : Offsets,
            pc : {"call"}, result : {[x |-> NaN, y |-> NaN, zoom |-> NaN]}] :
        ~Less(c.maxZoom, c.minZoom)}

TfbIdle ==
    tfb = [bounds |-> [x |-> Whole(0), y |-> Whole(0),
                       width |-> Whole(1), height |-> Whole(1)],
           width |-> Whole(1), height |-> Whole(1),
           minZoom |-> Whole(1), maxZoom |-> Whole(1),
           offset |-> [x |-> Whole(0), y |-> Whole(0)],
           pc |-> "idle", result |-> [x |-> NaN, y |-> NaN, zoom |-> NaN]]

GetTransformForBounds ==
    /\ tfb.pc = "call"
    /\ tfb' = [tfb EXCEPT
                 !.pc = "done",
                 !.result = getTransformForBounds(tfb.bounds, tfb.width, tfb.height,
                                                  tfb.minZoom, tfb.maxZoom,
                                                  DefaultPadding, tfb.offset)]
    /\ UNCHANGED <<edgeVars, parentVars, flowVars, gni>>

(***************************************************************************)
(* Specifications                                                          *)
(***************************************************************************)

(* The edge mutation protocol, from an empty collection. *)
InitEdges == EdgesIdle /\ ParentIdle /\ FlowIdle /\ GniIdle /\ TfbIdle

NextEdges ==
    \/ \E p \in EdgeParams : AddEdge(p)
    \/ \E old \in OldEdges(elements), c \in Connections : UpdateEdge(old, c)

SpecEdges == InitEdges /\ [][NextEdges]_vars

(* isParentSelected over every table of stored nodes. *)
InitParent ==
    /\ nodeTable \in NodeTables
    /\ ips = IpsIdle
    /\ EdgesIdle
    /\ FlowIdle
    /\ GniIdle
    /\ TfbIdle

NextParent ==
    \/ \E n \in NodeIds : CallIsParentSelected(n)
    \/ StepIsParentSelected

SpecParent == InitParent /\ [][NextParent]_vars

(* The registry: useVueFlow calls in and outside the scopes, destroy calls *)
(* and scope disposals.                                                    *)
InitFlow == FlowIdle /\ EdgesIdle /\ ParentIdle /\ GniIdle /\ TfbIdle

NextFlow ==
    \/ \E sc \in Scopes \cup {NoScope}, options \in IdOptions :
          UseVueFlow(sc, options, TRUE)
    \/ \E i \in Instances : Destroy(i)
    \/ \E sc \in Scopes : DisposeScope(sc)

SpecFlow == InitFlow /\ [][NextFlow]_vars

(* The resolution of useVueFlow on a registry that direct calls of the     *)
(* Storage's methods change between the calls.                             *)
NextResolve ==
    \/ \E sc \in Scopes \cup {NoScope}, options \in IdOptions :
          UseVueFlow(sc, options, TRUE)
    \/ CallGetId
    \/ \E i \in Instances : CallSet(insts[i].id, i)
    \/ \E key \in DirectKeys : CallRemove(key)
    \/ \E id \in DirectKeys : CallCreate(id, TRUE)

SpecResolve == InitFlow /\ [][NextResolve]_vars

(* The wiring of the default change handlers: everything that creates a    *)
(* store, writes its applyDefault flag, runs its watcher or stops it.      *)
NextWiring ==
    \/ \E sc \in Scopes \cup {NoScope}, options \in FlagOptions, default \in BOOLEAN :
          UseVueFlow(sc, options, default)
    \/ \E i \in Instances, b \in BOOLEAN : SetApplyDefault(i, b)
    \/ \E i \in Instances : FlushWatcher(i)
    \/ \E sc \in Scopes : DisposeScope(sc)

SpecWiring == InitFlow /\ [][NextWiring]_vars

(* The registry under useVueFlow calls and scope disposals alone, with     *)
(* explicit ids of the generated form.                                     *)
NextIsolation ==
    \/ \E sc \in Scopes \cup {NoScope}, options \in NamedOptions :
          UseVueFlow(sc, options, TRUE)
    \/ \E sc \in Scopes : DisposeScope(sc)

SpecIsolation == InitFlow /\ [][NextIsolation]_vars

(* getNodesInside on every node list, rectangle, transform and flags. *)
InitInside == gni \in GniCalls /\ EdgesIdle /\ ParentIdle /\ FlowIdle /\ TfbIdle

NextInside == GetNodesInside

SpecInside == InitInside /\ [][NextInside]_vars

(* getTransformForBounds on every rectangle, viewport and pair of limits. *)
InitBounds == tfb \in TfbCalls /\ EdgesIdle /\ ParentIdle /\ FlowIdle /\ GniIdle

NextBounds == GetTransformForBounds

SpecBounds == InitBounds /\ [][NextBounds]_vars

(***************************************************************************)
(* Claims about the edge identifier and the edge mutation protocol         *)
(***************************************************************************)

Indices(els) == 1..Len(els)

(* The connection 4-tuple of an edge, an absent handle being a value of    *)
(* its own.                                                                *)
Tuple(e) == <<e.source, e.sourceHandle, e.target, e.targetHandle>>

NonEmptyParts(e) ==
    e.source # "" /\ e.target # "" /\ e.sourceHandle # "" /\ e.targetHandle # ""

HasDerivedId(e) == e.id = getEdgeId(e)

(* Matching a connection as the dedup test matches it. *)
Matches(e, c) ==
    /\ e.source = c.source
    /\ e.target = c.target
    /\ HandleMatch(e.sourceHandle, c.sourceHandle)
    /\ HandleMatch(e.targetHandle, c.targetHandle)

MatchCount(c, els) == Cardinality({i \in Indices(els) : Matches(els[i], c)})

IdCount(id, els) == Cardinality({i \in Indices(els) : els[i].id = id})

ValidParams(c) == ~Falsy(c.source) /\ ~Falsy(c.target)

(* C1: getEdgeId is injective over the connection 4-tuple: two edges of    *)
(* the collection whose identifiers were derived from connections built    *)
(* from non-empty strings have the same identifier if and only if they     *)
(* have the same (source, sourceHandle, target, targetHandle).             *)
C1_EdgeIdInjective ==
    \A i, j \in Indices(elements) :
        ( /\ HasDerivedId(elements[i]) /\ NonEmptyParts(elements[i])
          /\ HasDerivedId(elements[j]) /\ NonEmptyParts(elements[j]) )
        => ( elements[i].id = elements[j].id
             <=> Tuple(elements[i]) = Tuple(elements[j]) )

(* C2: a successful updateEdge removes exactly one old edge and inserts    *)
(* exactly one new edge: the collection keeps its number of edges, holds   *)
(* no edge with the old identifier, and holds exactly one edge with the    *)
(* new connection's identifier, which sits at the old edge's position and  *)
(* carries the new endpoints.                                              *)
C2_UpdateReplacesExactlyOne ==
    ( /\ call.op = "updateEdge"
      /\ ValidParams(call.params)
      /\ FindIndex(call.old, prev) # 0 )
    => LET k == FindIndex(call.old, prev)
           newId == getEdgeId(call.params)
       IN  /\ Len(elements) = Len(prev)
           /\ IdCount(call.old, elements) = 0
           /\ IdCount(newId, elements) = 1
           /\ elements[k].id = newId
           /\ Tuple(elements[k]) = Tuple(call.params)

(* C3: addEdge is idempotent: after addEdge with valid parameters, the     *)
(* collection holds exactly one edge matching the connection, and a second *)
(* call with the same parameters returns the collection unchanged.         *)
C3_AddEdgeIdempotent ==
    (call.op = "addEdge" /\ ValidParams(call.params))
    => /\ addEdge(call.params, elements) = elements
       /\ MatchCount(call.params, elements) = 1

(* C4: the mutation layer never inserts a duplicate edge: no two distinct  *)
(* edges of the collection share (source, target, sourceHandle-or-absent,  *)
(* targetHandle-or-absent).                                                *)
C4_NoDuplicateEdges ==
    \A i, j \in Indices(elements) :
        i # j => Tuple(elements[i]) # Tuple(elements[j])

(* C9: invalid mutations are no-ops: addEdge with a missing or empty       *)
(* source or target, updateEdge with a missing or empty new source or      *)
(* target, and updateEdge whose old identifier is not in the collection    *)
(* each return the input collection, same elements in the same order.      *)
C9_InvalidMutationsAreNoOps ==
    /\ (call.op = "addEdge" /\ ~ValidParams(call.params)) => elements = prev
    /\ (call.op = "updateEdge" /\ ~ValidParams(call.params)) => elements = prev
    /\ (call.op = "updateEdge" /\ IdCount(call.old, prev) = 0) => elements = prev

(* An invalid addEdge, then an updateEdge naming an absent old edge, each  *)
(* on a collection that holds edges.                                       *)
C9_Witness ==
    /\ call.op = "updateEdge"
    /\ ValidParams(call.params)
    /\ call.old = MissingId
    /\ Len(prev) = MaxEdges

(***************************************************************************)
(* Claims about isParentSelected                                           *)
(***************************************************************************)

(* The existing parent of a node, if it names one that is stored. *)
HasParent(n) == nodeTable[n].parentNode \in NodeIds

ParentOf(n) == nodeTable[n].parentNode

(* The proper ancestors of n reachable through existing parents. *)
RECURSIVE AncestorsFrom(_, _)
AncestorsFrom(n, seen) ==
    IF ~HasParent(n) \/ ParentOf(n) \in seen
    THEN seen
    ELSE AncestorsFrom(ParentOf(n), seen \cup {ParentOf(n)})

Ancestors(n) == AncestorsFrom(n, {})

(* The chain from n runs into a cycle: it never reaches a node without an  *)
(* existing parent.                                                        *)
Cyclic(n) == \A a \in Ancestors(n) \cup {n} : HasParent(a)

AnyAncestorSelected(n) == \E a \in Ancestors(n) : nodeTable[a].selected

(* C5: isParentSelected terminates on every input with an answer: on a     *)
(* cyclic parent chain none of whose nodes is selected it returns false,   *)
(* and on an acyclic chain it returns true iff some proper ancestor        *)
(* reachable through existing parents is selected.                         *)
C5_ParentSelectedTerminates ==
    ips.pc = "done" =>
        /\ ips.result \in {"true", "false"}
        /\ (Cyclic(ips.start) /\ ~AnyAncestorSelected(ips.start))
               => ips.result = "false"
        /\ ~Cyclic(ips.start)
               => (ips.result = "true" <=> AnyAncestorSelected(ips.start))

(* The walk on the acyclic chains alone: it answers, and rightly. *)
AcyclicParentSelected ==
    (ips.pc = "done" /\ ~Cyclic(ips.start))
    => ips.result = (IF AnyAncestorSelected(ips.start) THEN "true" ELSE "false")

(***************************************************************************)
(* Claims about the registry and useVueFlow                                *)
(***************************************************************************)

ScopeAlive(w) == IF w.owner = NoScope THEN TRUE ELSE scopes[w.owner].alive

(* At most one default handler on each hook, and none that the registered  *)
(* cleanup would not release: the previous wiring is cleaned up before a   *)
(* new one is made.                                                        *)
SingleWiring(w) ==
    /\ Cardinality(w.nodesChange) <= 1
    /\ Cardinality(w.edgesChange) <= 1
    /\ w.nodesChange \subseteq {w.cleanup}
    /\ w.edgesChange \subseteq {w.cleanup}

(* C6 as stated: at every moment at most one default nodes-change and one  *)
(* default edges-change handler are subscribed, and one is subscribed      *)
(* exactly while the flag is true and the owning scope is alive.           *)
C6_WiredExactlyWhileEnabled ==
    \A i \in Instances :
        LET w == insts[i]
        IN  /\ SingleWiring(w)
            /\ w.nodesChange # {} <=> (w.applyDefault /\ ScopeAlive(w))
            /\ w.edgesChange # {} <=> (w.applyDefault /\ ScopeAlive(w))

(* C6, amended: at every moment at most one default nodes-change and one   *)
(* default edges-change handler are subscribed, each the one the pending   *)
(* cleanup releases; none is subscribed once the owning scope is disposed; *)
(* and while the scope is alive and no run of the watcher is pending, one  *)
(* is subscribed exactly if the flag is true.                              *)
C6_WiredWhileEnabledOnceFlushed ==
    \A i \in Instances :
        LET w == insts[i]
        IN  /\ SingleWiring(w)
            /\ ~ScopeAlive(w) => (w.nodesChange = {} /\ w.edgesChange = {})
            /\ (ScopeAlive(w) /\ ~w.pending) =>
                  /\ w.nodesChange # {} <=> w.applyDefault
                  /\ w.edgesChange # {} <=> w.applyDefault

(* One store wired after its flag was written and its watcher flushed,     *)
(* another released by the disposal of its scope while its flag was true.  *)
C6_Witness ==
    \E i, j \in Instances :
        /\ insts[i].applyDefault /\ ~insts[i].pending /\ ScopeAlive(insts[i])
        /\ insts[i].nodesChange # {} /\ insts[i].edgesChange # {}
        /\ insts[j].applyDefault /\ ~ScopeAlive(insts[j])
        /\ insts[j].nodesChange = {} /\ insts[j].edgesChange = {}

(* C7: the teardown a scope disposal runs for a store it created looks the *)
(* registry up by the store's identifier; if an instance is registered     *)
(* under it, that instance's destroy hook is invoked and the registry then *)
(* holds nothing under the identifier; if none is, a warning is reported   *)
(* and the registry is left as it was.                                     *)
C7_TeardownOnDispose ==
    /\ \A k \in 1..Len(teardowns) :
          LET e == teardowns[k]
              id == insts[e.inst].id
          IN  /\ ~ScopeAlive(insts[e.inst])
              /\ id \in DOMAIN e.before =>
                    /\ e.destroyed = e.before[id]
                    /\ id \notin DOMAIN e.after
                    /\ ~e.warned
              /\ id \notin DOMAIN e.before =>
                    /\ e.destroyed = 0
                    /\ e.after = e.before
                    /\ e.warned
    /\ \A i \in Instances : ~ScopeAlive(insts[i]) => ~insts[i].active

(* A disposal that found one store registered and another one not. *)
C7_Witness ==
    \E k, l \in 1..Len(teardowns) :
        /\ teardowns[k].warned
        /\ teardowns[l].destroyed # 0

Found(u) == IF u.injected # 0 THEN u.injected ELSE u.looked

Created(u) == u.returned = u.count + 1 /\ u.after = u.count + 1

(* C8 as stated: the instance is resolved by injection, then by registry   *)
(* lookup, then created; with any explicit id that differs from the found  *)
(* instance's id a new instance is created, registered under the explicit  *)
(* id and returned; a found instance with no conflicting id is returned    *)
(* and no instance is created.                                             *)
C8_AnyMismatchRecreates ==
    lastUse.returned # 0 =>
        LET u == lastUse
            found == Found(u)
            conflict == found # 0 /\ u.id # Undefined /\ u.id # insts[found].id
        IN  /\ found = 0 => Created(u)
            /\ conflict =>
                  /\ Created(u)
                  /\ insts[u.returned].id = u.id
                  /\ u.stored = u.returned
            /\ (found # 0 /\ ~conflict) =>
                  /\ u.returned = found
                  /\ u.after = u.count

(* C8, amended: the same, a conflicting id being a non-empty explicit id   *)
(* that differs from the found instance's id.                              *)
C8_NonEmptyMismatchRecreates ==
    lastUse.returned # 0 =>
        LET u == lastUse
            found == Found(u)
            conflict == found # 0 /\ ~Falsy(u.id) /\ u.id # insts[found].id
        IN  /\ found = 0 => Created(u)
            /\ conflict =>
                  /\ Created(u)
                  /\ insts[u.returned].id = u.id
                  /\ u.stored = u.returned
            /\ (found # 0 /\ ~conflict) =>
                  /\ u.returned = found
                  /\ u.after = u.count

(* A call in a scope with an injected instance and another, non-empty id:  *)
(* a new instance takes over.                                              *)
C8_Witness ==
    /\ lastUse.injected # 0
    /\ ~Falsy(lastUse.id)
    /\ lastUse.id # insts[lastUse.injected].id
    /\ lastUse.returned = Len(insts)
    /\ lastUse.returned # lastUse.injected

(* Every registry entry holds an instance whose id is the entry's key. *)
KeysMatchIds == \A k \in DOMAIN flows : insts[flows[k]].id = k

(* A step leaves every registered instance whose effect scope still runs   *)
(* registered under its key, unless the step removes the key.              *)
NoActiveInstanceReplaced ==
    \A k \in DOMAIN flows \cap DOMAIN flows' :
        insts[flows[k]].active => flows'[k] = flows[k]

(* Every teardown of the last disposal removed the instance it was set up  *)
(* for, or nothing.                                                        *)
TeardownsRemoveOwn ==
    \A k \in 1..Len(teardowns) :
        teardowns[k].destroyed \in {0, teardowns[k].inst}

(* C12: under any interleaving of useVueFlow calls and scope disposals,    *)
(* every registry entry maps an identifier to an instance with that id, no *)
(* creation replaces a different still-active instance registered under    *)
(* the same identifier, and a scope's disposal removes from the registry   *)
(* only the instances created in the scopes it stops.                      *)
C12_RegistryIsolation ==
    [][NoActiveInstanceReplaced /\ KeysMatchIds' /\ TeardownsRemoveOwn']_vars

(***************************************************************************)
(* Claims about getNodesInside                                             *)
(***************************************************************************)

InResult(i) == \E k \in 1..Len(gni.result) : gni.result[k] = i

Measured(node) ==
    /\ node.width # Unmeasured /\ node.width # 0
    /\ node.height # Unmeasured /\ node.height # 0

OverlapOf(i) ==
    getOverlappingArea(PaneRect(gni.rect, gni.transform), NodeRect(gni.nodes[i]))

(* Left out by the excludeNonSelectable flag: the flag is set and the      *)
(* node's selectable attribute is not true.                                *)
Unselectable(i) == gni.exclude /\ gni.nodes[i].selectable # "true"

(* C10 as stated: for every rectangle, transform and value of the two      *)
(* flags, a node whose width or height is zero or undefined is in the      *)
(* result; a measured node is in the result with partial = false only if   *)
(* the overlap area is at least its own area, and with partial = true      *)
(* whenever the overlap is positive.                                       *)
C10_UnmeasuredAlwaysInside ==
    gni.pc = "done" =>
        \A i \in 1..Len(gni.nodes) :
            LET node == gni.nodes[i]
            IN  /\ ~Measured(node) => InResult(i)
                /\ (Measured(node) /\ ~gni.partially /\ InResult(i))
                      => OverlapOf(i) >= node.width * node.height
                /\ (Measured(node) /\ gni.partially /\ OverlapOf(i) > 0)
                      => InResult(i)

(* C10, amended: the same for the nodes the excludeNonSelectable flag does *)
(* not leave out; a node it leaves out is never in the result.             *)
C10_UnmeasuredInsideUnlessUnselectable ==
    gni.pc = "done" =>
        \A i \in 1..Len(gni.nodes) :
            LET node == gni.nodes[i]
            IN  /\ Unselectable(i) => ~InResult(i)
                /\ (~Measured(node) /\ ~Unselectable(i)) => InResult(i)
                /\ (Measured(node) /\ ~gni.partially /\ InResult(i))
                      => OverlapOf(i) >= node.width * node.height
                /\ (Measured(node) /\ gni.partially /\ OverlapOf(i) > 0
                      /\ ~Unselectable(i))
                      => InResult(i)

(* An unmeasured node that lies outside the rectangle and is kept, with    *)
(* the excludeNonSelectable flag set.                                      *)
C10_Witness ==
    /\ gni.pc = "done"
    /\ gni.exclude
    /\ \E i \in 1..Len(gni.nodes) :
          /\ gni.nodes[i].height = Unmeasured
          /\ gni.nodes[i].width = 2
          /\ gni.nodes[i].selectable = "true"
          /\ OverlapOf(i) = 0
          /\ InResult(i)

(***************************************************************************)
(* Claims about getTransformForBounds                                      *)
(***************************************************************************)

(* The ratio at which a viewport extent fits a positive bounds extent      *)
(* under the default padding: view / (extent * 1.1).                       *)
FitRatio(view, extent) == Norm(10 * view.n, 11 * extent.n)

Lowest(a, b) == IF Less(b, a) THEN b ELSE a

Highest(a, b) == IF Less(a, b) THEN b ELSE a

InLimits(z, lo, hi) == IsFinite(z) /\ ~Less(z, lo) /\ ~Less(hi, z)

(* C11: for every bounds rectangle and viewport, a zero extent included,   *)
(* and every minZoom <= maxZoom, the zoom getTransformForBounds returns is *)
(* a number z with minZoom <= z <= maxZoom, and where both bounds extents  *)
(* are positive it is the lower of the two fit ratios clamped to the       *)
(* limits.                                                                 *)
C11_ZoomWithinLimits ==
    tfb.pc = "done" =>
        /\ InLimits(tfb.result.zoom, tfb.minZoom, tfb.maxZoom)
        /\ (tfb.bounds.width.n > 0 /\ tfb.bounds.height.n > 0) =>
              tfb.result.zoom =
                  Lowest(Highest(Lowest(FitRatio(tfb.width, tfb.bounds.width),
                                        FitRatio(tfb.height, tfb.bounds.height)),
                                 tfb.minZoom),
                         tfb.maxZoom)

====
